---- MODULE Spec2Model ----
(***************************************************************************)
(* Elevation & geospatial analysis engine of cycling-routes:               *)
(* src/elevation_utils.py and its callers, and the cafe matcher, the       *)
(* start-location classifiers and the difficulty classifiers of            *)
(* src/app.py, src/fix_elevation.py and src/scripts/fix_start_location.py, *)
(* and the batch recalculation job of src/fix_elevation.py.                *)
(*                                                                         *)
(* Numbers.  Python floats are modelled by exact fixed-point arithmetic:   *)
(*   - an elevation, a threshold and a gain are integers counting          *)
(*     1/Scale metre, Scale being a multiple of every window length the    *)
(*     bounds allow, so that every mean the code takes is exact;           *)
(*   - a horizontal distance (haversine, cumdist, smooth_distance) is an   *)
(*     integer number of metres;                                           *)
(*   - a route length (gpxpy's length_3d, the `distance` argument) is an   *)
(*     integer number of 1/DistScale metre, a square root being rounded    *)
(*     down to that unit.                                                  *)
(* Coordinates.  Points lie on one meridian (longitude 0), GridM metres    *)
(* of arc per latitude step; on a meridian the haversine formula reduces   *)
(* to R * |lat2 - lat1| (in radians), which is what haversine_distance     *)
(* computes here.                                                          *)
(***************************************************************************)
EXTENDS Integers, Sequences, FiniteSets, TLC

VARIABLES
    points,   \* argument of the functions of elevation_utils: <<lat, lon, ele>> tuples
    gpx,      \* argument of process_gpx_for_elevation: the segments of the GPX tracks
    srtm,     \* the SRTM tile srtm.get_data() answers from: latitude -> elevation or None
    all_cafes, \* the rows of the cafes table: [id, latitude, longitude] records
    stored,   \* the statistics kept from an earlier run of the pipeline on the file
    loop,     \* distance_based_smoothing run step by step: its locals, [pc |-> "idle"] outside
    batch,    \* the batch recalculation job: its routes, position and transaction
    call,     \* the last call made: [fn, arg, distance, method]
    result    \* its outcome: [kind, smoothed, gain, distance, error, cafes, label]

vars == <<points, gpx, srtm, all_cafes, stored, loop, batch, call, result>>

-----------------------------------------------------------------------------
(* Bounds of the checked inputs *)

\* longest point sequence handed to a function of elevation_utils
MaxLen == 3
\* highest elevation, in metres, of such a point
MaxEle == 2
\* most track points in a GPX file
MaxPts == 3
\* highest recorded elevation, in metres, of a GPX track point
MaxGpxEle == 1

Max(a, b) == IF a >= b THEN a ELSE b
Min(a, b) == IF a <= b THEN a ELSE b
Abs(a) == IF a >= 0 THEN a ELSE -a

RECURSIVE Gcd(_, _)
Gcd(a, b) == IF b = 0 THEN a ELSE Gcd(b, a % b)

RECURSIVE LcmUpTo(_)
LcmUpTo(n) == IF n <= 1 THEN 1 ELSE LET l == LcmUpTo(n - 1) IN (l * n) \div Gcd(l, n)

\* 1/Scale metre is the unit of elevations, thresholds and gains
Scale == LcmUpTo(Max(MaxLen, MaxPts))
Fix(metres) == metres * Scale

\* Python's float division a / b for b /= 0; the fixed-point unit makes it exact
\* (the CHOOSE has no value, and TLC stops, if it ever were not)
TrueDiv(a, b) == CHOOSE q \in {a \div b} : q * b = a

\* point.elevation is None / get_elevation(...) is None
None == -1

-----------------------------------------------------------------------------
(* Outcome of a call *)

NoResult == [kind |-> "none", smoothed |-> <<>>, gain |-> 0, distance |-> 0, error |-> "",
             cafes |-> <<>>, label |-> ""]
Raise(e) == [NoResult EXCEPT !.kind = "raise", !.error = e]
ReturnSeq(s) == [NoResult EXCEPT !.kind = "return", !.smoothed = s]
ReturnGain(g) == [NoResult EXCEPT !.kind = "return", !.gain = g]
ReturnPair(d, g) == [NoResult EXCEPT !.kind = "return", !.distance = d, !.gain = g]
ReturnCafes(c) == [NoResult EXCEPT !.kind = "return", !.cafes = c]
ReturnLabel(l) == [NoResult EXCEPT !.kind = "return", !.label = l]

NoCall == [fn |-> "none", arg |-> 0, distance |-> 0, method |-> ""]
\* nothing kept from an earlier run
NoStored == [call |-> NoCall, result |-> NoResult]
\* distance_based_smoothing is not running
NoLoop == [pc |-> "idle", smooth_distance |-> 0, i |-> 0, left |-> 0, right |-> 0,
           smoothed |-> <<>>]
\* no batch job
NoBatch == [pc |-> "idle", routes |-> <<>>, next |-> 0, updated |-> {}, committed |-> {}]
Called(f, a, d, m) == [fn |-> f, arg |-> a, distance |-> d, method |-> m]

-----------------------------------------------------------------------------
(* Python sequence primitives *)

RECURSIVE sum(_)
sum(values) == IF values = <<>> THEN 0 ELSE Head(values) + sum(Tail(values))

\* s[start:end] of a Python list (indices from 0; a negative index counts from the end)
PySlice(s, start, end) ==
    LET n == Len(s)
        lo == IF start < 0 THEN Max(start + n, 0) ELSE Min(start, n)
        hi == IF end < 0 THEN Max(end + n, 0) ELSE Min(end, n)
    IN  [k \in 1..Max(hi - lo, 0) |-> s[lo + k]]

\* [point[2] for point in points]
ElevationsOf(pts) == [k \in 1..Len(pts) |-> pts[k][3]]

-----------------------------------------------------------------------------
(* moving_average_filter *)

\* end = min(len(elevations), i + half_window + 1), with the off-by-one slip
WindowEndNoPlusOne(n, i, half_window) == Min(n, i + half_window)

\* end = min(len(elevations), i + half_window + 1)
WindowEnd(n, i, half_window) == Min(n, i + half_window + 1)

\* the loop body at index i (from 0), smoothed holding the samples before i
RECURSIVE MovingAverageLoop(_, _, _, _)
MovingAverageLoop(elevations, half_window, i, smoothed) ==
    IF i >= Len(elevations) THEN ReturnSeq(smoothed)
    ELSE LET start == Max(0, i - half_window)
             end == WindowEnd(Len(elevations), i, half_window)
             window_values == PySlice(elevations, start, end)
         IN  IF Len(window_values) = 0 THEN Raise("ZeroDivisionError")
             ELSE MovingAverageLoop(elevations, half_window, i + 1,
                      Append(smoothed, TrueDiv(sum(window_values), Len(window_values))))

moving_average_filter(elevations, window_size) ==
    IF Len(elevations) < window_size THEN ReturnSeq(elevations)
    ELSE MovingAverageLoop(elevations, window_size \div 2, 0, <<>>)

-----------------------------------------------------------------------------
(* _calculate_gain_with_threshold and calculate_leaflet_elevation_ascent *)

\* the threshold test with > for >=: a rise of exactly threshold is not committed
HysteresisStepStrict(total_gain, accumulated_change, threshold) ==
    IF accumulated_change > threshold THEN <<total_gain + accumulated_change, 0>>
    ELSE IF accumulated_change < -threshold THEN <<total_gain, 0>>
    ELSE <<total_gain, accumulated_change>>

\* the accumulator not reset on a commit: a committed rise is credited again
HysteresisStepNoReset(total_gain, accumulated_change, threshold) ==
    IF accumulated_change >= threshold
    THEN <<total_gain + accumulated_change, accumulated_change>>
    ELSE IF accumulated_change < -threshold THEN <<total_gain, 0>>
    ELSE <<total_gain, accumulated_change>>

\* the commit written = for +=: the total keeps only the last committed rise
HysteresisStepAssign(total_gain, accumulated_change, threshold) ==
    IF accumulated_change >= threshold THEN <<accumulated_change, 0>>
    ELSE IF accumulated_change < -threshold THEN <<total_gain, 0>>
    ELSE <<total_gain, accumulated_change>>

\* the if / elif after accumulated_change += change: <<total_gain, accumulated_change>>
HysteresisStep(total_gain, accumulated_change, threshold) ==
    IF accumulated_change >= threshold THEN <<total_gain + accumulated_change, 0>>
    ELSE IF accumulated_change < -threshold THEN <<total_gain, 0>>
    ELSE <<total_gain, accumulated_change>>

\* for i in range(1, len(elevations)), i from 0
RECURSIVE GainLoop(_, _, _, _, _)
GainLoop(elevations, threshold, i, total_gain, accumulated_change) ==
    IF i >= Len(elevations) THEN <<total_gain, accumulated_change>>
    ELSE LET change == elevations[i + 1] - elevations[i]
             step == HysteresisStep(total_gain, accumulated_change + change, threshold)
         IN  GainLoop(elevations, threshold, i + 1, step[1], step[2])

_calculate_gain_with_threshold(elevations, threshold) ==
    IF Len(elevations) < 2 THEN 0
    ELSE LET end == GainLoop(elevations, threshold, 1, 0, 0)
             total_gain == IF end[2] > 0 THEN end[1] + end[2] ELSE end[1]
         IN  Max(0, total_gain)

\* if dz > 0 dropped: every dz is added
AscentStepNoTest(total_ascent, dz) == total_ascent + dz

\* dz = elevations[i] - elevations[i - 1]; if dz > 0: total_ascent += dz
AscentStep(total_ascent, dz) == IF dz > 0 THEN total_ascent + dz ELSE total_ascent

RECURSIVE AscentLoop(_, _, _)
AscentLoop(elevations, i, total_ascent) ==
    IF i >= Len(elevations) THEN total_ascent
    ELSE AscentLoop(elevations, i + 1,
                    AscentStep(total_ascent, elevations[i + 1] - elevations[i]))

calculate_leaflet_elevation_ascent(elevations) ==
    IF Len(elevations) < 2 THEN 0 ELSE AscentLoop(elevations, 1, 0)

-----------------------------------------------------------------------------
(* haversine_distance and distance_based_smoothing *)

\* metres of meridian arc per latitude step: R * radians(1 step)
GridM == 20

\* R * c, where on a meridian (lon1 = lon2) c = |radians(lat2 - lat1)|
haversine_distance(lat1, lon1, lat2, lon2) == GridM * Abs(lat2 - lat1)

\* cumdist[i] = cumdist[i - 1] + haversine_distance(points[i - 1], points[i]), cumdist[0] = 0
CumDist(pts) ==
    LET cumdist[i \in 1..Len(pts)] ==
            IF i = 1 THEN 0
            ELSE cumdist[i - 1] + haversine_distance(pts[i - 1][1], pts[i - 1][2],
                                                     pts[i][1], pts[i][2])
    IN  cumdist

\* the right boundary's test written < for <=: a sample exactly max_d away is left out
NextWithinStrict(cumdist, right, max_d) == cumdist[right + 2] < max_d

\* the right boundary reaching one grid step beyond max_d
NextWithinWidened(cumdist, right, max_d) == cumdist[right + 2] <= max_d + GridM

\* cumdist[right + 1] <= max_d (right from 0)
NextWithin(cumdist, right, max_d) == cumdist[right + 2] <= max_d

\* the left boundary's test written <= for <: a sample exactly min_d away is left out
BelowMinOrAt(cumdist, left, min_d) == cumdist[left + 1] <= min_d

\* cumdist[left] < min_d (left from 0)
BelowMin(cumdist, left, min_d) == cumdist[left + 1] < min_d

\* while left < n and cumdist[left] < min_d: left += 1
RECURSIVE AdvanceLeft(_, _, _)
AdvanceLeft(cumdist, left, min_d) ==
    IF left < Len(cumdist) /\ BelowMin(cumdist, left, min_d)
    THEN AdvanceLeft(cumdist, left + 1, min_d)
    ELSE left

\* while right + 1 < n and cumdist[right + 1] <= max_d: right += 1
RECURSIVE AdvanceRight(_, _, _)
AdvanceRight(cumdist, right, max_d) ==
    IF right + 1 < Len(cumdist) /\ NextWithin(cumdist, right, max_d)
    THEN AdvanceRight(cumdist, right + 1, max_d)
    ELSE right

\* the two boundaries after the while loops of iteration i: <<left, right>>
WindowAt(cumdist, smooth_distance, i, left, right) ==
    << AdvanceLeft(cumdist, left, cumdist[i + 1] - smooth_distance),
       AdvanceRight(cumdist, right, cumdist[i + 1] + smooth_distance) >>

\* smoothed[i]: the mean over left..right, or points[i][2] when left > right
WindowMean(pts, i, left, right) ==
    IF left <= right
    THEN TrueDiv(sum([j \in 1..(right - left + 1) |-> pts[left + j][3]]), right - left + 1)
    ELSE pts[i + 1][3]

\* for i in range(n), i from 0, smoothed holding the samples before i
RECURSIVE SmoothingLoop(_, _, _, _, _, _, _)
SmoothingLoop(pts, cumdist, smooth_distance, i, left, right, smoothed) ==
    IF i >= Len(pts) THEN smoothed
    ELSE LET w == WindowAt(cumdist, smooth_distance, i, left, right)
         IN  SmoothingLoop(pts, cumdist, smooth_distance, i + 1, w[1], w[2],
                           Append(smoothed, WindowMean(pts, i, w[1], w[2])))

distance_based_smoothing(pts, smooth_distance) ==
    IF Len(pts) < 2 THEN ElevationsOf(pts)
    ELSE SmoothingLoop(pts, CumDist(pts), smooth_distance, 0, 0, 0, <<>>)

-----------------------------------------------------------------------------
(* calculate_elevation_gain *)

\* 1/DistScale metre is the unit of a route length (the `distance` argument)
DistScale == 100

\* smooth_distance = 25.0, threshold = 2.0 (distance_smooth_threshold)
SmoothDistance == 25
DistanceThreshold == 2
\* window_size = 3, threshold = 1.0 (moving_average_threshold)
WindowSize == 3
MovingAverageThreshold == 1
\* total_gain_ma / distance * 1000 > 11
PerKm == 1000
BlendRatio == 11

SupportedMethods == {"distance_smooth_threshold", "moving_average_threshold", "best_of_both"}

GainDistanceSmooth(pts) ==
    _calculate_gain_with_threshold(distance_based_smoothing(pts, SmoothDistance),
                                   Fix(DistanceThreshold))

\* moving_average_filter cannot raise with window_size = 3; a raise would propagate
GainMovingAverage(elevations) ==
    LET smoothed_elevations == moving_average_filter(elevations, WindowSize)
    IN  IF smoothed_elevations.kind = "raise" THEN smoothed_elevations
        ELSE ReturnGain(_calculate_gain_with_threshold(smoothed_elevations.smoothed,
                                                       Fix(MovingAverageThreshold)))

\* with the moving-average gain kept only below the ratio
BestOfBothAtLeast(pts, distance) ==
    LET ma == GainMovingAverage(ElevationsOf(pts))
        total_gain_db == GainDistanceSmooth(pts)
    IN  IF ma.kind = "raise" THEN ma
        ELSE IF distance = 0 THEN Raise("ZeroDivisionError")
        ELSE IF ma.gain * DistScale * PerKm >= BlendRatio * distance * Scale
             THEN ReturnGain(total_gain_db)
             ELSE ReturnGain(ma.gain)

\* the best_of_both branch; the float division raises when distance == 0
BestOfBoth(pts, distance) ==
    LET ma == GainMovingAverage(ElevationsOf(pts))
        total_gain_db == GainDistanceSmooth(pts)
    IN  IF ma.kind = "raise" THEN ma
        ELSE IF distance = 0 THEN Raise("ZeroDivisionError")
        ELSE IF ma.gain * DistScale * PerKm > BlendRatio * distance * Scale
             THEN ReturnGain(total_gain_db)
             ELSE ReturnGain(ma.gain)

\* without the early return for fewer than 2 points
calculate_elevation_gain_no_early_return(pts, distance, method) ==
    IF method = "distance_smooth_threshold" THEN ReturnGain(GainDistanceSmooth(pts))
    ELSE IF method = "moving_average_threshold" THEN GainMovingAverage(ElevationsOf(pts))
    ELSE IF method = "best_of_both" THEN BestOfBoth(pts, distance)
    ELSE Raise("ValueError")

calculate_elevation_gain(pts, distance, method) ==
    IF Len(pts) < 2 THEN ReturnGain(0)
    ELSE IF method = "distance_smooth_threshold" THEN ReturnGain(GainDistanceSmooth(pts))
    ELSE IF method = "moving_average_threshold" THEN GainMovingAverage(ElevationsOf(pts))
    ELSE IF method = "best_of_both" THEN BestOfBoth(pts, distance)
    ELSE Raise("ValueError")

-----------------------------------------------------------------------------
(* process_gpx_for_elevation *)

\* floor of the square root of x, sought between lo and hi (lo * lo <= x < hi * hi)
RECURSIVE IsqrtIn(_, _, _)
IsqrtIn(x, lo, hi) ==
    IF hi - lo <= 1 THEN lo
    ELSE LET mid == (lo + hi) \div 2
         IN  IF mid * mid <= x THEN IsqrtIn(x, mid, hi) ELSE IsqrtIn(x, lo, mid)

\* the 2-D distance alone: the elevation difference left out of the length
Distance2dOnly(p, q) == DistScale * haversine_distance(p[1], p[2], q[1], q[2])

\* gpxpy's distance between two consecutive track points, as length_3d takes it:
\* the 2-D distance when an elevation is None or both are equal, else
\* sqrt(distance_2d ** 2 + (elevation_1 - elevation_2) ** 2)
Distance3d(p, q) ==
    LET distance_2d == DistScale * haversine_distance(p[1], p[2], q[1], q[2])
    IN  IF p[3] = None \/ q[3] = None \/ p[3] = q[3] THEN distance_2d
        ELSE LET dz == DistScale * TrueDiv(Abs(p[3] - q[3]), Scale)
             IN  IsqrtIn(distance_2d * distance_2d + dz * dz,
                         Max(distance_2d, dz), distance_2d + dz + 1)

\* the length of one track segment: the distances between its consecutive points
RECURSIVE SegmentLength3d(_)
SegmentLength3d(segment) ==
    IF Len(segment) < 2 THEN 0
    ELSE Distance3d(segment[1], segment[2]) + SegmentLength3d(Tail(segment))

\* distance = sum([t.length_3d() for t in gpx.tracks])
RECURSIVE length_3d(_)
length_3d(segments) ==
    IF segments = <<>> THEN 0
    ELSE SegmentLength3d(Head(segments)) + length_3d(Tail(segments))

\* every point of every segment, in file order
RECURSIVE AllTrackPoints(_)
AllTrackPoints(segments) ==
    IF segments = <<>> THEN <<>>
    ELSE Head(segments) \o AllTrackPoints(Tail(segments))

\* all_points: the track points whose elevation is not None
RECURSIVE WithElevation(_)
WithElevation(pts) ==
    IF pts = <<>> THEN <<>>
    ELSE IF Head(pts)[3] /= None THEN <<Head(pts)>> \o WithElevation(Tail(pts))
    ELSE WithElevation(Tail(pts))

\* srtm_points: (lat, lon, srtm_elev) of the points of all_points the tile answers for
RECURSIVE SrtmPoints(_, _)
SrtmPoints(all_points, tile) ==
    IF all_points = <<>> THEN <<>>
    ELSE LET point == Head(all_points)
             srtm_elev == tile[point[1]]
         IN  IF srtm_elev /= None
             THEN <<<<point[1], point[2], srtm_elev>>>> \o SrtmPoints(Tail(all_points), tile)
             ELSE SrtmPoints(Tail(all_points), tile)

process_gpx_for_elevation(segments, tile, method) ==
    LET all_points == WithElevation(AllTrackPoints(segments))
        elevations == ElevationsOf(all_points)
        distance == length_3d(segments)
    IN  IF method = "leaflet_elevation"
        THEN ReturnPair(distance, calculate_leaflet_elevation_ascent(elevations))
        ELSE LET elevation_gain ==
                     calculate_elevation_gain(SrtmPoints(all_points, tile), distance, method)
             IN  IF elevation_gain.kind = "raise" THEN elevation_gain
                 ELSE ReturnPair(distance, elevation_gain.gain)

-----------------------------------------------------------------------------
(* Inputs *)

\* latitudes, in grid steps along the meridian, and its longitude
Lats == {0, 1}
Lons == {0}

\* points carrying an elevation, as the functions of elevation_utils take them
Points == Lats \X Lons \X {Fix(e) : e \in 0..MaxEle}
PointSeqs == UNION {[1..n -> Points] : n \in 0..MaxLen}

\* window_size, threshold (metres), smooth_distance (metres), distance (metres), method
WindowSizes == (-3)..(MaxLen + 1)
Thresholds == {0, 1, 2}
SmoothDistances == {-10, 0, 20, 25, 40}
Distances == {0, 40, 1000}
Methods == SupportedMethods \cup {"leaflet_elevation", "strava"}

\* GPX track points, whose elevation may be None
TrackPoints == Lats \X Lons \X ({None} \cup {Fix(e) : e \in 0..MaxGpxEle})
TrackPointSeqs == UNION {[1..n -> TrackPoints] : n \in 1..MaxPts}

\* GPX files: no track point at all, one segment, or the same points cut in two segments
Gpxs ==
    {<<>>} \cup {<<s>> : s \in TrackPointSeqs}
           \cup UNION {{<<SubSeq(s, 1, k), SubSeq(s, k + 1, Len(s))>> : k \in 1..(Len(s) - 1)}
                       : s \in TrackPointSeqs}

\* SRTM tiles: level ground, a 2 m step between the two latitudes, a void at latitude 0
SrtmTiles ==
    { [lat \in Lats |-> Fix(1)],
      [lat \in Lats |-> Fix(2 * lat)],
      [lat \in Lats |-> IF lat = 0 THEN None ELSE Fix(1)] }

NoTile == [lat \in Lats |-> None]

-----------------------------------------------------------------------------
(* The functions of elevation_utils called on a point sequence *)

\* The calls are synchronous: one is made when no result is pending, and the
\* caller takes the result before the next call.
TakeResult ==
    /\ call /= NoCall
    /\ call' = NoCall
    /\ result' = NoResult
    /\ UNCHANGED <<points, gpx, srtm, all_cafes, stored, loop, batch>>

InitFn ==
    /\ points \in PointSeqs
    /\ gpx = <<>>
    /\ srtm = NoTile
    /\ all_cafes = <<>>
    /\ stored = NoStored
    /\ loop = NoLoop
    /\ batch = NoBatch
    /\ call = NoCall
    /\ result = NoResult

CallMovingAverageFilter ==
    \E window_size \in WindowSizes :
        /\ call = NoCall
        /\ call' = Called("moving_average_filter", window_size, 0, "")
        /\ result' = moving_average_filter(ElevationsOf(points), window_size)
        /\ UNCHANGED <<points, gpx, srtm, all_cafes, stored, loop, batch>>

CallGainWithThreshold ==
    \E threshold \in Thresholds :
        /\ call = NoCall
        /\ call' = Called("_calculate_gain_with_threshold", threshold, 0, "")
        /\ result' = ReturnGain(_calculate_gain_with_threshold(ElevationsOf(points),
                                                               Fix(threshold)))
        /\ UNCHANGED <<points, gpx, srtm, all_cafes, stored, loop, batch>>

CallLeafletAscent ==
    /\ call = NoCall
    /\ call' = Called("calculate_leaflet_elevation_ascent", 0, 0, "")
    /\ result' = ReturnGain(calculate_leaflet_elevation_ascent(ElevationsOf(points)))
    /\ UNCHANGED <<points, gpx, srtm, all_cafes, stored, loop, batch>>

CallDistanceBasedSmoothing ==
    \E smooth_distance \in SmoothDistances :
        /\ call = NoCall
        /\ call' = Called("distance_based_smoothing", smooth_distance, 0, "")
        /\ result' = ReturnSeq(distance_based_smoothing(points, smooth_distance))
        /\ UNCHANGED <<points, gpx, srtm, all_cafes, stored, loop, batch>>

CallCalculateElevationGain ==
    \E distance \in Distances, method \in Methods :
        /\ call = NoCall
        /\ call' = Called("calculate_elevation_gain", 0, DistScale * distance, method)
        /\ result' = calculate_elevation_gain(points, DistScale * distance, method)
        /\ UNCHANGED <<points, gpx, srtm, all_cafes, stored, loop, batch>>

NextFn ==
    \/ CallMovingAverageFilter
    \/ CallGainWithThreshold
    \/ CallLeafletAscent
    \/ CallDistanceBasedSmoothing
    \/ CallCalculateElevationGain
    \/ TakeResult

SpecFn == InitFn /\ [][NextFn]_vars

\* calculate_elevation_gain called on climbs steep enough for the best_of_both
\* ratio: the elevations reach BlendRatio metres, which over the 1000 m of
\* Distances is a gain of exactly BlendRatio metres per kilometre
BlendPoints == Lats \X Lons \X {Fix(e) : e \in (0..MaxEle) \cup {BlendRatio}}
BlendPointSeqs == UNION {[1..n -> BlendPoints] : n \in 0..MaxLen}

InitBlend ==
    /\ points \in BlendPointSeqs
    /\ gpx = <<>>
    /\ srtm = NoTile
    /\ all_cafes = <<>>
    /\ stored = NoStored
    /\ loop = NoLoop
    /\ batch = NoBatch
    /\ call = NoCall
    /\ result = NoResult

NextBlend == CallCalculateElevationGain \/ TakeResult

SpecBlend == InitBlend /\ [][NextBlend]_vars

-----------------------------------------------------------------------------
(* The Elevation Pipeline called on a GPX file *)

Init ==
    /\ points = <<>>
    /\ gpx \in Gpxs
    /\ srtm \in SrtmTiles
    /\ all_cafes = <<>>
    /\ stored = NoStored
    /\ loop = NoLoop
    /\ batch = NoBatch
    /\ call = NoCall
    /\ result = NoResult

\* a pipeline that writes the SRTM elevation it looked up into each track point
GpxWithSrtmElevations(segments, tile) ==
    [s \in 1..Len(segments) |->
        [n \in 1..Len(segments[s]) |->
            LET point == segments[s][n]
            IN  IF point[3] /= None /\ tile[point[1]] /= None
                THEN <<point[1], point[2], tile[point[1]]>>
                ELSE point]]

\* the GPX object after the call: the pipeline reads point.elevation and assigns
\* nothing ("use original elevations, not SRTM")
GpxAfterCall(segments, tile) == segments

CallProcessGpx ==
    \E method \in Methods :
        /\ call = NoCall
        /\ call' = Called("process_gpx_for_elevation", 0, 0, method)
        /\ result' = process_gpx_for_elevation(gpx, srtm, method)
        /\ gpx' = GpxAfterCall(gpx, srtm)
        /\ UNCHANGED <<points, srtm, all_cafes, stored, loop, batch>>

Next == CallProcessGpx \/ TakeResult

Spec == Init /\ [][Next]_vars

\* The pipeline run again on a GPX object it has processed before: the caller keeps
\* the statistics of one run (as the route's row keeps them) and goes on calling
RerunGpxs == {<<s>> : s \in TrackPointSeqs}

InitRerun ==
    /\ points = <<>>
    /\ gpx \in RerunGpxs
    /\ srtm \in SrtmTiles
    /\ all_cafes = <<>>
    /\ stored = NoStored
    /\ loop = NoLoop
    /\ batch = NoBatch
    /\ call = NoCall
    /\ result = NoResult

KeepResult ==
    /\ call.fn = "process_gpx_for_elevation"
    /\ stored = NoStored
    /\ stored' = [call |-> call, result |-> result]
    /\ call' = NoCall
    /\ result' = NoResult
    /\ UNCHANGED <<points, gpx, srtm, all_cafes, loop, batch>>

NextRerun == CallProcessGpx \/ KeepResult \/ TakeResult

SpecRerun == InitRerun /\ [][NextRerun]_vars

-----------------------------------------------------------------------------
(* Claims about the functions of elevation_utils, checked under SpecFn *)

\* the elevation sequence of the call's point sequence
InputElevations == ElevationsOf(points)

\* the sum of f over the indices lo..hi
RECURSIVE SumRange(_, _, _)
SumRange(f, lo, hi) == IF lo > hi THEN 0 ELSE f[hi] + SumRange(f, lo, hi - 1)

\* The hysteresis reference: acc[k] is the accumulator on receiving delta k, the
\* accumulator kept after delta k being 0 when acc[k] >= threshold (credited in
\* full) or acc[k] < -threshold (discarded); a positive remainder is credited.
HysteresisReference(elev, threshold) ==
    LET m == Max(Len(elev) - 1, 0)
        Kept(a) == IF a >= threshold \/ a < -threshold THEN 0 ELSE a
        acc[k \in 0..m] == IF k = 0 THEN 0 ELSE Kept(acc[k - 1]) + (elev[k + 1] - elev[k])
        credited == [k \in 1..m |-> IF acc[k] >= threshold THEN acc[k] ELSE 0]
    IN  SumRange(credited, 1, m) + Max(Kept(acc[m]), 0)

\* C1: for every elevation sequence and threshold >= 0, _calculate_gain_with_threshold
\* returns the value of the hysteresis reference.
C1_GainIsHysteresisReference ==
    call.fn = "_calculate_gain_with_threshold"
        => /\ result.kind = "return"
           /\ result.gain = HysteresisReference(InputElevations, Fix(call.arg))

\* a rise of exactly the threshold was credited and the descent after it was not
C1_Witness ==
    /\ call.fn = "_calculate_gain_with_threshold"
    /\ call.arg > 0
    /\ Len(points) = 3
    /\ InputElevations[2] - InputElevations[1] = Fix(call.arg)
    /\ InputElevations[3] < InputElevations[2]
    /\ result.gain = Fix(call.arg)

\* C6: the gain returned by _calculate_gain_with_threshold (every threshold >= 0), by
\* calculate_leaflet_elevation_ascent and by calculate_elevation_gain (every method)
\* is >= 0.
C6_GainNonNegative ==
    ( /\ call.fn \in {"_calculate_gain_with_threshold",
                      "calculate_leaflet_elevation_ascent", "calculate_elevation_gain"}
      /\ result.kind = "return" )
        => result.gain >= 0

\* a gain was returned for a route that ends lower than it starts
C6_Witness ==
    /\ call.fn \in {"_calculate_gain_with_threshold",
                    "calculate_leaflet_elevation_ascent", "calculate_elevation_gain"}
    /\ result.kind = "return"
    /\ Len(points) >= 2
    /\ InputElevations[Len(points)] < InputElevations[1]
    /\ result.gain = 0

StrictlyIncreasing(elev) == \A k \in 1..(Len(elev) - 1) : elev[k] < elev[k + 1]

\* C7: for a strictly increasing elevation sequence of length >= 2,
\* _calculate_gain_with_threshold with threshold 0 returns last - first.
C7_IncreasingGainIsRise ==
    ( /\ call.fn = "_calculate_gain_with_threshold"
      /\ call.arg = 0
      /\ Len(points) >= 2
      /\ StrictlyIncreasing(InputElevations) )
        => result.gain = InputElevations[Len(points)] - InputElevations[1]

\* threshold 0 on a strictly increasing sequence of more than one delta
C7_Witness ==
    /\ call.fn = "_calculate_gain_with_threshold"
    /\ call.arg = 0
    /\ Len(points) >= 3
    /\ StrictlyIncreasing(InputElevations)
    /\ result.gain = InputElevations[Len(points)] - InputElevations[1]

\* C8: for window size w >= 1, moving_average_filter returns a sequence as long as the
\* input: the input itself when n < w, else element i is the mean of the input over
\* max(0, i - w div 2) .. min(n - 1, i + w div 2); w = 1 returns the input.
C8_MovingAverageIsClampedMean ==
    ( call.fn = "moving_average_filter" /\ call.arg >= 1 )
        => LET n == Len(points)
               w == call.arg
               h == w \div 2
           IN  /\ result.kind = "return"
               /\ Len(result.smoothed) = n
               /\ n < w => result.smoothed = InputElevations
               /\ w = 1 => result.smoothed = InputElevations
               /\ n >= w =>
                    \A i \in 1..n :
                        LET lo == Max(1, i - h)
                            hi == Min(n, i + h)
                        IN  result.smoothed[i] * (hi - lo + 1) = SumRange(InputElevations, lo, hi)

\* a window of 3 over 3 samples changed the sequence
C8_Witness ==
    /\ call.fn = "moving_average_filter"
    /\ call.arg = 3
    /\ Len(points) = 3
    /\ result.kind = "return"
    /\ result.smoothed /= InputElevations
    /\ result.smoothed[1] /= result.smoothed[3]

\* the sum of f over the set S of indices
RECURSIVE SumOver(_, _)
SumOver(f, S) == IF S = {} THEN 0 ELSE LET j == CHOOSE x \in S : TRUE
                                        IN  f[j] + SumOver(f, S \ {j})

\* the naive window of sample i: every j with cumdist(i) - D <= cumdist(j) <= cumdist(i) + D
NaiveWindow(cumdist, i, D) ==
    {j \in DOMAIN cumdist : cumdist[i] - D <= cumdist[j] /\ cumdist[j] <= cumdist[i] + D}

\* C9: for every radius D >= 0, distance_based_smoothing returns, at each index, the
\* mean elevation over the naive window, and a sequence as long as the input.
C9_SmoothingIsNaiveWindowMean ==
    ( call.fn = "distance_based_smoothing" /\ call.arg >= 0 )
        => /\ result.kind = "return"
           /\ Len(result.smoothed) = Len(points)
           /\ \A i \in 1..Len(points) :
                LET W == NaiveWindow(CumDist(points), i, call.arg)
                IN  result.smoothed[i] * Cardinality(W) = SumOver(InputElevations, W)

\* three samples 20 m apart smoothed with radius 20 m: the first window ends exactly
\* at the radius and leaves the third sample out
C9_Witness ==
    /\ call.fn = "distance_based_smoothing"
    /\ call.arg = 20
    /\ Len(points) = 3
    /\ CumDist(points) = <<0, 20, 40>>
    /\ result.smoothed[1] * 2 = InputElevations[1] + InputElevations[2]
    /\ result.smoothed[1] /= result.smoothed[2]
    /\ result.smoothed[1] /= InputElevations[1]

\* C4 as claimed: moving_average_filter with window_size <= 0 and
\* distance_based_smoothing with smooth_distance <= 0 raise an error for every input
\* instead of returning a sequence.
C4_NonPositiveWindowRaises ==
    ( /\ call.fn \in {"moving_average_filter", "distance_based_smoothing"}
      /\ call.arg <= 0 )
        => result.kind = "raise"

-----------------------------------------------------------------------------
(* Claims about the Elevation Pipeline, checked under Spec *)

TrackPointsOf == AllTrackPoints(gpx)

PipelineMethods == SupportedMethods \cup {"leaflet_elevation"}

\* every track point records the same elevation and the tile is level under the route
ConstantElevation ==
    /\ \A k \in 1..Len(TrackPointsOf) :
         TrackPointsOf[k][3] /= None /\ TrackPointsOf[k][3] = TrackPointsOf[1][3]
    /\ \A k \in 1..Len(TrackPointsOf) :
         srtm[TrackPointsOf[k][1]] /= None
         /\ srtm[TrackPointsOf[k][1]] = srtm[TrackPointsOf[1][1]]

\* C2 as claimed: for a route whose elevations are all equal (any length, any
\* coordinates, any distance including 0) the gain is 0 under every supported method.
C2_ConstantElevationGainZero ==
    ( /\ call.fn = "process_gpx_for_elevation"
      /\ call.method \in PipelineMethods
      /\ ConstantElevation )
        => result.kind = "return" /\ result.gain = 0

\* C3 as claimed: an unrecognized method name fails with ValueError for every point
\* sequence, the empty and single-point ones included; no (distance, gain) is returned.
C3_UnknownMethodRaises ==
    ( /\ call.fn = "process_gpx_for_elevation"
      /\ call.method \notin PipelineMethods )
        => result.kind = "raise" /\ result.error = "ValueError"

\* C5: for a route of fewer than 2 points and every supported method the pipeline
\* returns distance 0 and gain 0 and raises nothing.
C5_FewerThanTwoPoints ==
    ( /\ call.fn = "process_gpx_for_elevation"
      /\ call.method \in PipelineMethods
      /\ Len(TrackPointsOf) < 2 )
        => result = ReturnPair(0, 0)

\* the adaptive blend returned (0, 0) for a single point the tile has an elevation for
C5_Witness ==
    /\ call.fn = "process_gpx_for_elevation"
    /\ call.method = "best_of_both"
    /\ Len(TrackPointsOf) = 1
    /\ TrackPointsOf[1][3] /= None
    /\ srtm[TrackPointsOf[1][1]] /= None
    /\ result = ReturnPair(0, 0)

\* the great-circle distances between the consecutive points of the full point sequence
GreatCircleLength(pts) ==
    SumRange([k \in 1..(Len(pts) - 1) |->
                 DistScale * haversine_distance(pts[k][1], pts[k][2],
                                                pts[k + 1][1], pts[k + 1][2])],
             1, Len(pts) - 1)

Reference3d(p, q) ==
    LET flat == DistScale * haversine_distance(p[1], p[2], q[1], q[2])
        dz == IF p[3] = None \/ q[3] = None THEN 0
              ELSE (DistScale * Abs(p[3] - q[3])) \div Scale
        sq == flat * flat + dz * dz
    IN  CHOOSE r \in Max(flat, dz)..(flat + dz) : r * r <= sq /\ sq < (r + 1) * (r + 1)

\* the 3-D length of the route: consecutive points of the same segment only
ReferenceLength(segments) ==
    SumRange([s \in 1..Len(segments) |->
                 SumRange([k \in 1..(Len(segments[s]) - 1) |->
                              Reference3d(segments[s][k], segments[s][k + 1])],
                          1, Len(segments[s]) - 1)],
             1, Len(segments))

-----------------------------------------------------------------------------
(* Claims about the best_of_both method, checked under SpecBlend *)

GainOfMethod(method) == calculate_elevation_gain(points, call.distance, method)

\* C11: calculate_elevation_gain with method best_of_both and a distance > 0 returns
\* the distance_smooth_threshold gain when (moving_average_threshold gain / distance
\* in metres) * 1000 > 11 and the moving_average_threshold gain otherwise, a ratio
\* of exactly 11 included; whenever it returns, its result is the result of one of
\* those two methods on the same input.
C11_BestOfBothBlend ==
    ( /\ call.fn = "calculate_elevation_gain"
      /\ call.method = "best_of_both" )
        => LET ma == GainOfMethod("moving_average_threshold")
               db == GainOfMethod("distance_smooth_threshold")
           IN  /\ result.kind = "return" => result \in {ma, db}
               /\ call.distance > 0 =>
                     /\ result.kind = "return"
                     /\ result.gain =
                            IF ma.gain * DistScale * 1000 > 11 * call.distance * Scale
                            THEN db.gain ELSE ma.gain

\* at a ratio of exactly 11 the moving-average gain was returned, the
\* distance_smooth_threshold gain being another value
C11_Witness ==
    /\ call.fn = "calculate_elevation_gain"
    /\ call.method = "best_of_both"
    /\ call.distance > 0
    /\ GainOfMethod("moving_average_threshold").gain * DistScale * 1000
           = 11 * call.distance * Scale
    /\ result = GainOfMethod("moving_average_threshold")
    /\ result /= GainOfMethod("distance_smooth_threshold")

-----------------------------------------------------------------------------
(* Claims about points without elevation, checked under Spec *)

\* the GPX file with the points that lack an elevation taken out of every segment
RECURSIVE ElevationBearing(_)
ElevationBearing(segments) ==
    IF segments = <<>> THEN <<>>
    ELSE <<WithElevation(Head(segments))>> \o ElevationBearing(Tail(segments))

\* C12: points without an elevation are excluded from the gain computation and
\* never cause a failure: for every supported method, whenever the pipeline succeeds
\* on the points that have an elevation it succeeds on the whole route with the same
\* gain, and when every point of the route lacks elevation the gain is 0.
C12_MissingElevationExcluded ==
    ( /\ call.fn = "process_gpx_for_elevation"
      /\ call.method \in PipelineMethods )
        => LET sub == process_gpx_for_elevation(ElevationBearing(gpx), srtm, call.method)
           IN  /\ WithElevation(TrackPointsOf) = <<>>
                     => result.kind = "return" /\ result.gain = 0
               /\ sub.kind = "return"
                     => result.kind = "return" /\ result.gain = sub.gain

-----------------------------------------------------------------------------
(* get_cafes_near_route of app.py *)

\* most route points of a GPX file matched against the cafes
MaxRoutePts == 2
\* most rows of the cafes table
MaxCafes == 3
\* northernmost latitude, in grid steps, of a cafe or of a matched route point
MaxCafeLat == 2

MAX_CAFE_DISTANCE_M == 2000

\* float('inf'): below no distance, above every one
inf == -1

\* app.py's own haversine, the same formula with the same radius
haversine(lat1, lon1, lat2, lon2) == GridM * Abs(lat2 - lat1)

\* route_points: (latitude, longitude) of every point of every segment
RoutePoints(segments) ==
    LET pts == AllTrackPoints(segments)
    IN  [i \in 1..Len(pts) |-> <<pts[i][1], pts[i][2]>>]

\* the scan keeping whatever distance came last
KeepLast(distance, min_distance) == TRUE

\* if distance < min_distance
Closer(distance, min_distance) == min_distance = inf \/ distance < min_distance

\* the inner loop: min_distance after the route points from index i on
RECURSIVE MinDistanceLoop(_, _, _, _)
MinDistanceLoop(cafe, route_points, i, min_distance) ==
    IF i > Len(route_points) THEN min_distance
    ELSE LET distance == haversine(cafe.latitude, cafe.longitude,
                                   route_points[i][1], route_points[i][2])
         IN  MinDistanceLoop(cafe, route_points, i + 1,
                             IF Closer(distance, min_distance) THEN distance
                             ELSE min_distance)

\* a cafe strictly closer than max_distance_m
WithinStrict(min_distance, max_distance_m) ==
    min_distance /= inf /\ min_distance < max_distance_m

\* if min_distance <= max_distance_m
Within(min_distance, max_distance_m) ==
    min_distance /= inf /\ min_distance <= max_distance_m

\* cafe_dict = dict(cafe); cafe_dict['distance_to_route'] = min_distance
CafeDict(cafe, min_distance) ==
    [id |-> cafe.id, latitude |-> cafe.latitude, longitude |-> cafe.longitude,
     distance_to_route |-> min_distance]

\* the outer loop: cafes_near_route, in the order of the table, before the sort
RECURSIVE CafesLoop(_, _, _)
CafesLoop(cafes, route_points, max_distance_m) ==
    IF cafes = <<>> THEN <<>>
    ELSE LET cafe == Head(cafes)
             min_distance == MinDistanceLoop(cafe, route_points, 1, inf)
             rest == CafesLoop(Tail(cafes), route_points, max_distance_m)
         IN  IF Within(min_distance, max_distance_m)
             THEN <<CafeDict(cafe, min_distance)>> \o rest
             ELSE rest

\* a sort moving an element ahead of the elements of equal key as well
KeyLessOrEqual(x, y) == x.distance_to_route <= y.distance_to_route

\* list.sort(key=lambda x: x['distance_to_route']) compares the keys with <
KeyLess(x, y) == x.distance_to_route < y.distance_to_route

\* x put into a sorted list behind every element it is not less than
RECURSIVE SortedInsert(_, _)
SortedInsert(sorted, x) ==
    IF sorted = <<>> THEN <<x>>
    ELSE IF KeyLess(x, Head(sorted)) THEN <<x>> \o sorted
    ELSE <<Head(sorted)>> \o SortedInsert(Tail(sorted), x)

\* list.sort: ascending keys, elements of equal key left in their order (the sort
\* is stable), obtained by inserting the elements from first to last
RECURSIVE SortLoop(_, _)
SortLoop(list, sorted) ==
    IF list = <<>> THEN sorted
    ELSE SortLoop(Tail(list), SortedInsert(sorted, Head(list)))

SortByDistanceToRoute(cafes_near_route) == SortLoop(cafes_near_route, <<>>)

\* parsed: whether opening and parsing the GPX file succeeded
get_cafes_near_route(cafes, segments, parsed, max_distance_m) ==
    IF cafes = <<>> THEN ReturnCafes(<<>>)
    ELSE IF ~parsed THEN ReturnCafes(<<>>)
    ELSE ReturnCafes(SortByDistanceToRoute(
             CafesLoop(cafes, RoutePoints(segments), max_distance_m)))

\* the GPX files matched: no track, or one segment of points without elevation
CafeLats == 0..MaxCafeLat
RouteSeqs == UNION {[1..n -> CafeLats \X Lons \X {None}] : n \in 0..MaxRoutePts}
CafeGpxs == {<<>>} \cup {<<s>> : s \in RouteSeqs}

\* the cafes table: ids ascending from 1 (INTEGER PRIMARY KEY AUTOINCREMENT)
CafeTables ==
    UNION {{[i \in 1..n |-> [id |-> i, latitude |-> lats[i], longitude |-> 0]]
            : lats \in [1..n -> CafeLats]} : n \in 0..MaxCafes}

MaxDistances == {-1, 0, GridM, MAX_CAFE_DISTANCE_M}

GpxParsed == "parsed"
GpxError == "error"

InitCafes ==
    /\ points = <<>>
    /\ gpx \in CafeGpxs
    /\ srtm = NoTile
    /\ all_cafes \in CafeTables
    /\ stored = NoStored
    /\ loop = NoLoop
    /\ batch = NoBatch
    /\ call = NoCall
    /\ result = NoResult

\* the call's method field tells whether the GPX file could be parsed
CallGetCafesNearRoute ==
    \E max_distance_m \in MaxDistances, parsed \in BOOLEAN :
        /\ call = NoCall
        /\ call' = Called("get_cafes_near_route", max_distance_m, 0,
                          IF parsed THEN GpxParsed ELSE GpxError)
        /\ result' = get_cafes_near_route(all_cafes, gpx, parsed, max_distance_m)
        /\ UNCHANGED <<points, gpx, srtm, all_cafes, stored, loop, batch>>

NextCafes == CallGetCafesNearRoute \/ TakeResult

SpecCafes == InitCafes /\ [][NextCafes]_vars

-----------------------------------------------------------------------------
(* Claims about get_cafes_near_route, checked under SpecCafes *)

\* a call whose GPX file was parsed
CafesMatched == call.fn = "get_cafes_near_route" /\ call.method = GpxParsed

\* the distances from a cafe to the route points
DistancesToRoute(cafe) ==
    {haversine(cafe.latitude, cafe.longitude, p[1], p[2])
        : p \in {TrackPointsOf[i] : i \in 1..Len(TrackPointsOf)}}

\* the least of them, when there is one
MinimumDistance(cafe) ==
    CHOOSE d \in DistancesToRoute(cafe) : \A e \in DistancesToRoute(cafe) : d <= e

\* the positions a cafe has in the returned list
PositionsOf(cafe) == {k \in 1..Len(result.cafes) : result.cafes[k].id = cafe.id}

\* C13: for every route point sequence, cafe table and max_distance,
\* get_cafes_near_route returns exactly the cafes whose minimum distance to any route
\* point is <= max_distance (exactly max_distance included, farther absent), each at
\* most once and each annotated with distance_to_route equal to that minimum.
C13_ExactlyTheCafesInRange ==
    CafesMatched
        => /\ result.kind = "return"
           /\ \A k \in 1..Len(result.cafes) :
                 \E i \in 1..Len(all_cafes) : all_cafes[i].id = result.cafes[k].id
           /\ \A i \in 1..Len(all_cafes) :
                 LET cafe == all_cafes[i]
                 IN  IF \E d \in DistancesToRoute(cafe) : d <= call.arg
                     THEN \E k \in 1..Len(result.cafes) :
                            /\ PositionsOf(cafe) = {k}
                            /\ result.cafes[k].latitude = cafe.latitude
                            /\ result.cafes[k].longitude = cafe.longitude
                            /\ result.cafes[k].distance_to_route = MinimumDistance(cafe)
                     ELSE PositionsOf(cafe) = {}

\* a cafe exactly max_distance > 0 from the route was returned and a cafe farther
\* away was not
C13_Witness ==
    /\ CafesMatched
    /\ call.arg > 0
    /\ \E i, j \in 1..Len(all_cafes) :
          /\ PositionsOf(all_cafes[i]) /= {}
          /\ MinimumDistance(all_cafes[i]) = call.arg
          /\ PositionsOf(all_cafes[j]) = {}
          /\ MinimumDistance(all_cafes[j]) > call.arg

\* C14: the list returned by get_cafes_near_route is ordered by non-decreasing
\* distance_to_route, and any two cafes of equal distance appear in the same
\* relative order as in the cafes table.
C14_SortedAndStable ==
    CafesMatched
        => \A k, l \in 1..Len(result.cafes) :
              k < l => \/ result.cafes[k].distance_to_route
                            < result.cafes[l].distance_to_route
                       \/ /\ result.cafes[k].distance_to_route
                                = result.cafes[l].distance_to_route
                          /\ \E i, j \in 1..Len(all_cafes) :
                                /\ i < j
                                /\ all_cafes[i].id = result.cafes[k].id
                                /\ all_cafes[j].id = result.cafes[l].id

\* the sort moved the last cafe of the table to the front and left two cafes of
\* equal distance in their order
C14_Witness ==
    /\ CafesMatched
    /\ Len(all_cafes) = 3
    /\ Len(result.cafes) = 3
    /\ result.cafes[1].id = 3
    /\ result.cafes[2].id = 1
    /\ result.cafes[3].id = 2
    /\ result.cafes[2].distance_to_route = result.cafes[3].distance_to_route

\* the cafes of the table whose coordinates are those of some route point
Coincident ==
    {i \in 1..Len(all_cafes) :
        \E n \in 1..Len(TrackPointsOf) :
            /\ all_cafes[i].latitude = TrackPointsOf[n][1]
            /\ all_cafes[i].longitude = TrackPointsOf[n][2]}

\* C15 as stated: for every route, cafe table and max_distance >= 0, a cafe whose
\* coordinates equal those of some route point has distance_to_route == 0 and is the
\* first element of the result.
C15_CoincidentCafeIsFirst ==
    (CafesMatched /\ call.arg >= 0)
        => \A i \in Coincident :
              /\ Len(result.cafes) >= 1
              /\ result.cafes[1].id = all_cafes[i].id
              /\ result.cafes[1].distance_to_route = 0

\* C15, amended: for every route, cafe table and max_distance >= 0, a cafe whose
\* coordinates equal those of some route point is returned with distance_to_route
\* == 0 ahead of every returned cafe of positive distance, and the first element of
\* the result is the first such cafe of the table.
C15_CoincidentCafesLead ==
    (CafesMatched /\ call.arg >= 0)
        => /\ \A i \in Coincident :
                 \E k \in 1..Len(result.cafes) :
                    /\ result.cafes[k].id = all_cafes[i].id
                    /\ \A l \in 1..k : result.cafes[l].distance_to_route = 0
           /\ Coincident /= {}
                 => result.cafes[1].id
                        = all_cafes[CHOOSE i \in Coincident :
                                        \A j \in Coincident : i <= j].id

\* two cafes lie on route points other than the first one, behind a cafe off the
\* route in the table: they were returned first and second, ahead of that cafe
C15_Witness ==
    /\ CafesMatched
    /\ Len(TrackPointsOf) = 2
    /\ Coincident = {2, 3}
    /\ all_cafes[2].latitude /= TrackPointsOf[1][1]
    /\ Len(result.cafes) = 3
    /\ result.cafes[1].id = 2
    /\ result.cafes[2].id = 3
    /\ result.cafes[3].id = 1

-----------------------------------------------------------------------------
(* determine_start_location of app.py and of scripts/fix_start_location.py *)

\* The anchors, in grid steps along the meridian from Leamington: Campus about
\* 10 km to the north of it, Calpe about 1500 km to the south
CAMPUS == <<504, 0>>
LEAMINGTON == <<0, 0>>
CALPE == <<-76000, 0>>

UNKNOWN_LOCATION_THRESHOLD_M == 10000

\* first_point = None
NoPoint == <<>>

\* the first point of the first segment that has points (app.py process_gpx_file,
\* and the head of the script's determine_start_location)
RECURSIVE FirstPoint(_)
FirstPoint(segments) ==
    IF segments = <<>> THEN NoPoint
    ELSE IF Head(segments) /= <<>> THEN Head(segments)[1]
    ELSE FirstPoint(Tail(segments))

min3(a, b, c) == Min(Min(a, b), c)

\* a point exactly at the threshold counted as too far
BeyondThresholdOrAt(min_dist) == min_dist >= UNKNOWN_LOCATION_THRESHOLD_M

\* if min_dist > UNKNOWN_LOCATION_THRESHOLD_M
BeyondThreshold(min_dist) == min_dist > UNKNOWN_LOCATION_THRESHOLD_M

determine_start_location(first_point) ==
    IF first_point = NoPoint THEN ReturnLabel("Unknown")
    ELSE LET d_campus == haversine(first_point[1], first_point[2], CAMPUS[1], CAMPUS[2])
             d_leam == haversine(first_point[1], first_point[2],
                                 LEAMINGTON[1], LEAMINGTON[2])
             d_calpe == haversine(first_point[1], first_point[2], CALPE[1], CALPE[2])
             min_dist == min3(d_campus, d_leam, d_calpe)
         IN  IF BeyondThreshold(min_dist) THEN ReturnLabel("Other")
             ELSE IF d_campus = min_dist THEN ReturnLabel("Campus")
             ELSE IF d_leam = min_dist THEN ReturnLabel("Leamington")
             ELSE ReturnLabel("Calpe")

\* scripts/fix_start_location.py: its own haversine and anchors, and no Calpe
fix_start_location_haversine(lat1, lon1, lat2, lon2) == GridM * Abs(lat2 - lat1)
fix_start_location_CAMPUS == <<504, 0>>
fix_start_location_LEAMINGTON == <<0, 0>>

fix_start_location_determine_start_location(segments) ==
    LET first_point == FirstPoint(segments)
    IN  IF first_point /= NoPoint
        THEN LET d_campus == fix_start_location_haversine(
                                 first_point[1], first_point[2],
                                 fix_start_location_CAMPUS[1], fix_start_location_CAMPUS[2])
                 d_leam == fix_start_location_haversine(
                               first_point[1], first_point[2],
                               fix_start_location_LEAMINGTON[1],
                               fix_start_location_LEAMINGTON[2])
                 min_dist == Min(d_campus, d_leam)
             IN  IF min_dist > 10000 THEN ReturnLabel("Other")
                 ELSE IF d_campus < d_leam THEN ReturnLabel("Campus")
                 ELSE ReturnLabel("Leamington")
        ELSE ReturnLabel("Unknown")


\* most track points of a GPX file handed to the classifiers
MaxStartPts == 2

\* the threshold in grid steps
ThresholdSteps == UNKNOWN_LOCATION_THRESHOLD_M \div GridM

\* latitudes of a first point: at each anchor, at and just beyond the threshold on
\* either side of it, and around the points halfway between two anchors
StartLats ==
    UNION {{a[1] - ThresholdSteps - 1, a[1] - ThresholdSteps, a[1],
            a[1] + ThresholdSteps, a[1] + ThresholdSteps + 1}
           : a \in {CAMPUS, LEAMINGTON, CALPE}}
    \cup {((CAMPUS[1] + LEAMINGTON[1]) \div 2) + d : d \in {-1, 0, 1}}
    \cup {(LEAMINGTON[1] + CALPE[1]) \div 2}

StartPointSeqs == UNION {[1..n -> StartLats \X Lons \X {None}] : n \in 1..MaxStartPts}

\* GPX files: no track, an empty segment, one segment, an empty segment before it
StartGpxs ==
    {<<>>, <<<<>>>>} \cup {<<s>> : s \in StartPointSeqs}
                     \cup {<<<<>>, s>> : s \in StartPointSeqs}

InitLocation ==
    /\ points = <<>>
    /\ gpx \in StartGpxs
    /\ srtm = NoTile
    /\ all_cafes = <<>>
    /\ stored = NoStored
    /\ loop = NoLoop
    /\ batch = NoBatch
    /\ call = NoCall
    /\ result = NoResult

\* app.py: first_point comes from process_gpx_file
CallDetermineStartLocation ==
    /\ call = NoCall
    /\ call' = Called("determine_start_location", 0, 0, "")
    /\ result' = determine_start_location(FirstPoint(gpx))
    /\ UNCHANGED <<points, gpx, srtm, all_cafes, stored, loop, batch>>

CallFixStartLocation ==
    /\ call = NoCall
    /\ call' = Called("fix_start_location.determine_start_location", 0, 0, "")
    /\ result' = fix_start_location_determine_start_location(gpx)
    /\ UNCHANGED <<points, gpx, srtm, all_cafes, stored, loop, batch>>

NextLocation == CallDetermineStartLocation \/ CallFixStartLocation \/ TakeResult

SpecLocation == InitLocation /\ [][NextLocation]_vars

-----------------------------------------------------------------------------
(* Claims about determine_start_location, checked under SpecLocation *)

\* the anchors each implementation knows, by name, in its order
AnchorsOf(fn) ==
    IF fn = "determine_start_location"
    THEN <<[name |-> "Campus", at |-> CAMPUS], [name |-> "Leamington", at |-> LEAMINGTON],
           [name |-> "Calpe", at |-> CALPE]>>
    ELSE <<[name |-> "Campus", at |-> fix_start_location_CAMPUS],
           [name |-> "Leamington", at |-> fix_start_location_LEAMINGTON]>>

LocationCalled ==
    call.fn \in {"determine_start_location", "fix_start_location.determine_start_location"}

\* distance in metres from the first point of the file to the k-th anchor
AnchorDistance(k) ==
    GridM * Abs(FirstPoint(gpx)[1] - AnchorsOf(call.fn)[k].at[1])

\* the indices of the anchors nearest to the first point
Nearest ==
    LET K == 1..Len(AnchorsOf(call.fn))
    IN  {k \in K : \A j \in K : AnchorDistance(k) <= AnchorDistance(j)}

\* C16: determine_start_location returns "Unknown" when there is no first point;
\* otherwise "Other" when the minimum distance from the first point to the anchors
\* is strictly greater than 10,000 m, and the name of a nearest anchor when that
\* minimum is <= the threshold; its result is always "Unknown", "Other" or an
\* anchor name.
C16_StartLocationLabel ==
    LocationCalled
        => LET anchors == AnchorsOf(call.fn)
           IN  /\ result.kind = "return"
               /\ result.label \in {"Unknown", "Other"}
                                    \cup {anchors[k].name : k \in 1..Len(anchors)}
               /\ IF FirstPoint(gpx) = NoPoint THEN result.label = "Unknown"
                  ELSE IF \A k \in Nearest : AnchorDistance(k) > 10000
                       THEN result.label = "Other"
                       ELSE \E k \in Nearest : result.label = anchors[k].name

\* a first point exactly 10,000 m from its nearest anchor, which is not Campus,
\* got that anchor's name
C16_Witness ==
    /\ LocationCalled
    /\ FirstPoint(gpx) /= NoPoint
    /\ \E k \in Nearest : /\ AnchorDistance(k) = 10000
                           /\ k > 1
                           /\ result.label = AnchorsOf(call.fn)[k].name


\* C17: for every first point equidistant from two or more nearest anchors (within
\* the threshold), each implementation returns the name of the anchor that comes
\* first in its anchor ordering (Campus, Leamington, Calpe in app.py; Campus,
\* Leamington in scripts/fix_start_location.py).
C17_TieGoesToFirstAnchor ==
    ( /\ LocationCalled
      /\ FirstPoint(gpx) /= NoPoint
      /\ Cardinality(Nearest) >= 2
      /\ \A k \in Nearest : AnchorDistance(k) <= 10000 )
        => result.label
             = AnchorsOf(call.fn)[CHOOSE k \in Nearest : \A j \in Nearest : k <= j].name

-----------------------------------------------------------------------------
(* calculate_difficulty of app.py and its copy in fix_elevation.py *)
(* distance_km counts kilometres and elevation_gain_m metres *)

\* the inputs lie within Margin of a band limit
Margin == 1

\* the fallback taking the lowest category that matches
HighestMatchingLowestFirst(distance_km, elevation_gain_m) ==
    IF distance_km > 30 \/ elevation_gain_m > 300 THEN "Moderate"
    ELSE IF distance_km > 70 \/ elevation_gain_m > 1000 THEN "Hard"
    ELSE IF distance_km > 100 \/ elevation_gain_m > 2000 THEN "Very Hard"
    ELSE "Easy"

\* the fallback with the limits of Moderate counted in
HighestMatchingInclusive(distance_km, elevation_gain_m) ==
    IF distance_km > 100 \/ elevation_gain_m > 2000 THEN "Very Hard"
    ELSE IF distance_km > 70 \/ elevation_gain_m > 1000 THEN "Hard"
    ELSE IF distance_km >= 30 \/ elevation_gain_m >= 300 THEN "Moderate"
    ELSE "Easy"

\* the else branch: "Pick the highest matching category"
HighestMatching(distance_km, elevation_gain_m) ==
    IF distance_km > 100 \/ elevation_gain_m > 2000 THEN "Very Hard"
    ELSE IF distance_km > 70 \/ elevation_gain_m > 1000 THEN "Hard"
    ELSE IF distance_km > 30 \/ elevation_gain_m > 300 THEN "Moderate"
    ELSE "Easy"

calculate_difficulty(distance_km, elevation_gain_m) ==
    IF distance_km < 30 /\ elevation_gain_m < 300 THEN ReturnLabel("Easy")
    ELSE IF /\ 30 <= distance_km /\ distance_km <= 70
            /\ 300 <= elevation_gain_m /\ elevation_gain_m <= 1000
         THEN ReturnLabel("Moderate")
    ELSE IF /\ 70 < distance_km /\ distance_km <= 100
            /\ 1000 < elevation_gain_m /\ elevation_gain_m <= 2000
         THEN ReturnLabel("Hard")
    ELSE IF distance_km > 100 /\ elevation_gain_m > 2000 THEN ReturnLabel("Very Hard")
    ELSE ReturnLabel(HighestMatching(distance_km, elevation_gain_m))

\* fix_elevation.py carries its own copy of the function
fix_elevation_calculate_difficulty(distance_km, elevation_gain_m) ==
    IF distance_km < 30 /\ elevation_gain_m < 300 THEN ReturnLabel("Easy")
    ELSE IF /\ 30 <= distance_km /\ distance_km <= 70
            /\ 300 <= elevation_gain_m /\ elevation_gain_m <= 1000
         THEN ReturnLabel("Moderate")
    ELSE IF /\ 70 < distance_km /\ distance_km <= 100
            /\ 1000 < elevation_gain_m /\ elevation_gain_m <= 2000
         THEN ReturnLabel("Hard")
    ELSE IF distance_km > 100 /\ elevation_gain_m > 2000 THEN ReturnLabel("Very Hard")
    ELSE IF distance_km > 100 \/ elevation_gain_m > 2000 THEN ReturnLabel("Very Hard")
    ELSE IF distance_km > 70 \/ elevation_gain_m > 1000 THEN ReturnLabel("Hard")
    ELSE IF distance_km > 30 \/ elevation_gain_m > 300 THEN ReturnLabel("Moderate")
    ELSE ReturnLabel("Easy")

\* the band limits the function compares with, and inputs at and around them
DistanceLimits == {30, 70, 100}
GainLimits == {300, 1000, 2000}
Around(limits) == UNION {(l - Margin)..(l + Margin) : l \in limits}
DistancesKm == {0} \cup Around(DistanceLimits)
GainsM == {0} \cup Around(GainLimits)

InitDifficulty ==
    /\ points = <<>>
    /\ gpx = <<>>
    /\ srtm = NoTile
    /\ all_cafes = <<>>
    /\ stored = NoStored
    /\ loop = NoLoop
    /\ batch = NoBatch
    /\ call = NoCall
    /\ result = NoResult

\* the call's distance field holds distance_km, its arg field elevation_gain_m
CallCalculateDifficulty ==
    \E distance_km \in DistancesKm, elevation_gain_m \in GainsM :
        /\ call = NoCall
        /\ call' = Called("calculate_difficulty", elevation_gain_m, distance_km, "")
        /\ result' = calculate_difficulty(distance_km, elevation_gain_m)
        /\ UNCHANGED <<points, gpx, srtm, all_cafes, stored, loop, batch>>

CallFixElevationCalculateDifficulty ==
    \E distance_km \in DistancesKm, elevation_gain_m \in GainsM :
        /\ call = NoCall
        /\ call' = Called("fix_elevation.calculate_difficulty", elevation_gain_m,
                          distance_km, "")
        /\ result' = fix_elevation_calculate_difficulty(distance_km, elevation_gain_m)
        /\ UNCHANGED <<points, gpx, srtm, all_cafes, stored, loop, batch>>

NextDifficulty ==
    CallCalculateDifficulty \/ CallFixElevationCalculateDifficulty \/ TakeResult

SpecDifficulty == InitDifficulty /\ [][NextDifficulty]_vars

-----------------------------------------------------------------------------
(* Claims about calculate_difficulty, checked under SpecDifficulty *)

DifficultyCalled ==
    call.fn \in {"calculate_difficulty", "fix_elevation.calculate_difficulty"}

Labels == {"Easy", "Moderate", "Hard", "Very Hard"}

\* the labels whose exact band holds d and g
ExactBands(d, g) ==
    {l \in Labels :
        \/ l = "Easy" /\ d < 30 /\ g < 300
        \/ l = "Moderate" /\ 30 <= d /\ d <= 70 /\ 300 <= g /\ g <= 1000
        \/ l = "Hard" /\ 70 < d /\ d <= 100 /\ 1000 < g /\ g <= 2000
        \/ l = "Very Hard" /\ d > 100 /\ g > 2000}

\* the labels whose fallback test d and g pass; Easy asks for nothing
FallbackMatches(d, g) ==
    {l \in Labels :
        \/ l = "Very Hard" /\ (d > 100 \/ g > 2000)
        \/ l = "Hard" /\ (d > 70 \/ g > 1000)
        \/ l = "Moderate" /\ (d > 30 \/ g > 300)
        \/ l = "Easy"}

Severity(label) ==
    CASE label = "Easy" -> 1 [] label = "Moderate" -> 2
      [] label = "Hard" -> 3 [] label = "Very Hard" -> 4

\* the reference: the exact band if one matches, otherwise the first, in the order
\* Very Hard, Hard, Moderate, Easy, of the labels whose fallback test passes
ReferenceLabel(d, g) ==
    IF ExactBands(d, g) /= {} THEN CHOOSE l \in ExactBands(d, g) : TRUE
    ELSE CHOOSE l \in FallbackMatches(d, g) :
            \A m \in FallbackMatches(d, g) : Severity(m) <= Severity(l)

\* C18: for every (distance_km, elevation_gain_m), calculate_difficulty returns
\* exactly one of Easy, Moderate, Hard, Very Hard, equal to the reference, and the
\* copies in app.py and fix_elevation.py return the same label.
C18_DifficultyIsReference ==
    DifficultyCalled
        => /\ result.kind = "return"
           /\ result.label \in Labels
           /\ Cardinality(ExactBands(call.distance, call.arg)) <= 1
           /\ result.label = ReferenceLabel(call.distance, call.arg)
           /\ result = calculate_difficulty(call.distance, call.arg)
           /\ result = fix_elevation_calculate_difficulty(call.distance, call.arg)

\* no exact band held the input and the fallback answered Hard, on the distance
\* alone
C18_Witness ==
    /\ DifficultyCalled
    /\ ExactBands(call.distance, call.arg) = {}
    /\ call.distance > 70
    /\ call.arg < 300
    /\ result.label = "Hard"

\* the band the distance alone falls in, and the band the gain alone falls in
DistanceBand(d) ==
    IF d < 30 THEN "Easy" ELSE IF d <= 70 THEN "Moderate"
    ELSE IF d <= 100 THEN "Hard" ELSE "Very Hard"
GainBand(g) ==
    IF g < 300 THEN "Easy" ELSE IF g <= 1000 THEN "Moderate"
    ELSE IF g <= 2000 THEN "Hard" ELSE "Very Hard"

\* C19: either dimension alone escalates difficulty: for every (distance_km,
\* elevation_gain_m) >= 0 the label returned by calculate_difficulty is at least as
\* severe as the band the distance alone falls in and at least as severe as the
\* band the gain alone falls in.
C19_EitherDimensionEscalates ==
    (DifficultyCalled /\ call.distance >= 0 /\ call.arg >= 0)
        => /\ Severity(result.label) >= Severity(DistanceBand(call.distance))
           /\ Severity(result.label) >= Severity(GainBand(call.arg))

-----------------------------------------------------------------------------
(* Claims about running the pipeline again, checked under SpecRerun *)

\* the call repeats, on the same GPX object, the call whose result was kept
Rerun == call.fn = "process_gpx_for_elevation" /\ stored.call = call

-----------------------------------------------------------------------------
(* recalculate_elevation_with_srtm of fix_elevation.py (scripts/fix_elevation.py *)
(* has the same loop, existence test, parse and single commit)                *)

\* most routes of the routes table
MaxRoutes == 4

\* what the job finds of a route's GPX file: not there, not parseable, or a GPX
\* file the pipeline processes
RouteFiles == {"missing", "unparseable", "gpx"}
RouteTables == UNION {[1..n -> RouteFiles] : n \in 0..MaxRoutes}

\* the job started: routes fetched, nothing updated yet
InitBatch ==
    /\ points = <<>>
    /\ gpx = <<>>
    /\ srtm = NoTile
    /\ all_cafes = <<>>
    /\ stored = NoStored
    /\ loop = NoLoop
    /\ batch \in {[pc |-> "running", routes |-> routes, next |-> 1, updated |-> {},
                    committed |-> {}] : routes \in RouteTables}
    /\ call = NoCall
    /\ result = NoResult

AtRoute(file) ==
    /\ batch.pc = "running"
    /\ batch.next <= Len(batch.routes)
    /\ batch.routes[batch.next] = file

\* if not os.path.exists(gpx_path): continue
SkipMissingFile ==
    /\ AtRoute("missing")
    /\ batch' = [batch EXCEPT !.next = @ + 1]
    /\ UNCHANGED <<points, gpx, srtm, all_cafes, stored, loop, call, result>>

\* gpxpy.parse raises: nothing catches it, the job ends before conn.commit() and
\* the UPDATEs of its open transaction are rolled back
ParseRaises ==
    /\ AtRoute("unparseable")
    /\ batch' = [batch EXCEPT !.pc = "aborted", !.updated = {}]
    /\ UNCHANGED <<points, gpx, srtm, all_cafes, stored, loop, call, result>>

\* the route is processed and its row UPDATEd within the open transaction
UpdateRoute ==
    /\ AtRoute("gpx")
    /\ batch' = [batch EXCEPT !.next = @ + 1, !.updated = @ \cup {batch.next}]
    /\ UNCHANGED <<points, gpx, srtm, all_cafes, stored, loop, call, result>>

\* conn.commit() after the loop
CommitBatch ==
    /\ batch.pc = "running"
    /\ batch.next > Len(batch.routes)
    /\ batch' = [batch EXCEPT !.pc = "committed", !.committed = batch.updated,
                               !.updated = {}]
    /\ UNCHANGED <<points, gpx, srtm, all_cafes, stored, loop, call, result>>

NextBatch == SkipMissingFile \/ ParseRaises \/ UpdateRoute \/ CommitBatch

SpecBatch == InitBatch /\ [][NextBatch]_vars

-----------------------------------------------------------------------------
(* Claims about the batch job, checked under SpecBatch *)

\* C21: in the batch recalculation job, when the computation for one route fails
\* (missing file, GPX parse error or pipeline error), every other route of the
\* batch is still processed and its updated distance, gain and difficulty are
\* committed to the store: once the job has ended, every route with a GPX file
\* that can be processed is committed.
C21_OtherRoutesCommitted ==
    batch.pc \in {"committed", "aborted"}
        => \A r \in 1..Len(batch.routes) :
              batch.routes[r] = "gpx" => r \in batch.committed

-----------------------------------------------------------------------------
(* distance_based_smoothing run one iteration of its for loop at a time *)

InitSmoothing ==
    /\ points \in PointSeqs
    /\ gpx = <<>>
    /\ srtm = NoTile
    /\ all_cafes = <<>>
    /\ stored = NoStored
    /\ loop = NoLoop
    /\ batch = NoBatch
    /\ call = NoCall
    /\ result = NoResult

\* the call: fewer than 2 points are returned at once, else left = right = 0 and the
\* for loop is entered
EnterSmoothing ==
    \E smooth_distance \in SmoothDistances :
        /\ call = NoCall
        /\ call' = Called("distance_based_smoothing", smooth_distance, 0, "")
        /\ IF Len(points) < 2
           THEN /\ result' = ReturnSeq(ElevationsOf(points))
                /\ loop' = NoLoop
           ELSE /\ result' = NoResult
                /\ loop' = [pc |-> "for", smooth_distance |-> smooth_distance, i |-> 0,
                            left |-> 0, right |-> 0, smoothed |-> <<>>]
        /\ UNCHANGED <<points, gpx, srtm, all_cafes, stored, batch>>

\* one iteration of for i in range(n): both while loops, then smoothed[i]
SmoothSample ==
    /\ loop.pc = "for"
    /\ loop.i < Len(points)
    /\ LET w == WindowAt(CumDist(points), loop.smooth_distance, loop.i,
                         loop.left, loop.right)
       IN  loop' = [loop EXCEPT !.i = @ + 1, !.left = w[1], !.right = w[2],
                                !.smoothed = Append(@, WindowMean(points, loop.i,
                                                                  w[1], w[2]))]
    /\ UNCHANGED <<points, gpx, srtm, all_cafes, stored, batch, call, result>>

\* return smoothed
ReturnSmoothed ==
    /\ loop.pc = "for"
    /\ loop.i = Len(points)
    /\ result' = ReturnSeq(loop.smoothed)
    /\ loop' = NoLoop
    /\ UNCHANGED <<points, gpx, srtm, all_cafes, stored, batch, call>>

\* the caller takes the result of a call that has returned
TakeSmoothed ==
    /\ result /= NoResult
    /\ TakeResult

NextSmoothing == EnterSmoothing \/ SmoothSample \/ ReturnSmoothed \/ TakeSmoothed

SpecSmoothing == InitSmoothing /\ [][NextSmoothing]_vars

-----------------------------------------------------------------------------
(* Claims about the window boundaries, checked under SpecSmoothing *)

\* the boundaries the next iteration will leave
NextWindow ==
    WindowAt(CumDist(points), loop.smooth_distance, loop.i, loop.left, loop.right)

\* C22: during one run of distance_based_smoothing left and right are each
\* non-decreasing from one index i to the next, left never exceeds n-1 and right
\* never exceeds n-1, so the boundary advances of the whole run number at most 2n.
C22_BoundariesOnlyAdvance ==
    loop.pc = "for"
        => /\ loop.left <= Len(points) - 1
           /\ loop.right <= Len(points) - 1
           /\ loop.left + loop.right <= 2 * Len(points)
           /\ loop.i < Len(points)
                 => NextWindow[1] >= loop.left /\ NextWindow[2] >= loop.right


\* C25: in distance_based_smoothing with smooth_distance >= 0, at the moment each
\* output sample i is computed the window satisfies 0 <= left <= i <= right <= n-1:
\* it is never empty and holds sample i, every index read is in bounds, and the
\* fallback that copies points[i][2] when left > right is never taken.  (loop.i
\* is one past the sample just computed; its mean is the one over left..right.)
C25_WindowHoldsSample ==
    (loop.pc = "for" /\ loop.smooth_distance >= 0 /\ loop.i >= 1)
        => /\ 0 <= loop.left
           /\ loop.left <= loop.i - 1
           /\ loop.i - 1 <= loop.right
           /\ loop.right <= Len(points) - 1
           /\ loop.smoothed[loop.i] * (loop.right - loop.left + 1)
                 = SumRange(InputElevations, loop.left + 1, loop.right + 1)

\* the middle sample of three was computed over a window that both boundaries had
\* moved to it
C25_Witness ==
    /\ loop.pc = "for"
    /\ loop.smooth_distance >= 0
    /\ Len(points) = 3
    /\ loop.i = 2
    /\ loop.left = 1
    /\ loop.right = 1

-----------------------------------------------------------------------------
(* Further claims about the functions of elevation_utils, checked under SpecFn *)

\* every two consecutive points are at distinct locations
DistinctLocations ==
    \A k \in 1..(Len(points) - 1) :
        points[k][1] /= points[k + 1][1] \/ points[k][2] /= points[k + 1][2]

\* C23: with radius D = 0 and every pair of consecutive points at distinct
\* locations, distance_based_smoothing returns the input elevations unchanged,
\* element for element.
C23_ZeroRadiusPassthrough ==
    (call.fn = "distance_based_smoothing" /\ call.arg = 0 /\ DistinctLocations)
        => result = ReturnSeq(InputElevations)

\* three points at distinct consecutive locations and differing elevations came
\* back unchanged
C23_Witness ==
    /\ call.fn = "distance_based_smoothing"
    /\ call.arg = 0
    /\ DistinctLocations
    /\ Len(points) = 3
    /\ InputElevations[1] /= InputElevations[2]
    /\ InputElevations[2] /= InputElevations[3]
    /\ result.smoothed = InputElevations


\* the sum of the positive consecutive deltas
PositiveDeltas ==
    SumRange([k \in 1..(Len(points) - 1) |->
                 Max(InputElevations[k + 1] - InputElevations[k], 0)],
             1, Len(points) - 1)

\* C24: for every elevation sequence of length >= 2 and every threshold >= 0 the
\* gain of _calculate_gain_with_threshold satisfies max(0, last - first) <= gain <=
\* sum of the positive consecutive deltas.
C24_GainBetweenNetAndTotalClimb ==
    (call.fn = "_calculate_gain_with_threshold" /\ Len(points) >= 2)
        => /\ result.kind = "return"
           /\ Max(0, InputElevations[Len(points)] - InputElevations[1]) <= result.gain
           /\ result.gain <= PositiveDeltas

\* a descent below the threshold was taken off the climb after it: the gain is the
\* net climb > 0, less than the sum of the positive deltas
C24_Witness ==
    /\ call.fn = "_calculate_gain_with_threshold"
    /\ Len(points) >= 2
    /\ InputElevations[Len(points)] - InputElevations[1] > 0
    /\ result.gain = InputElevations[Len(points)] - InputElevations[1]
    /\ result.gain < PositiveDeltas


\* C26: calculate_elevation_gain with method best_of_both returns a gain without
\* raising for every point sequence of length >= 2 and every distance >= 0,
\* distance = 0 included.
C26_BestOfBothNeverRaises ==
    ( /\ call.fn = "calculate_elevation_gain"
      /\ call.method = "best_of_both"
      /\ Len(points) >= 2
      /\ call.distance >= 0 )
        => result.kind = "return"

-----------------------------------------------------------------------------
(* Further claims about calculate_difficulty, checked under SpecDifficulty *)

\* the label the called copy gives to another input
LabelOf(d, g) ==
    IF call.fn = "calculate_difficulty" THEN calculate_difficulty(d, g).label
    ELSE fix_elevation_calculate_difficulty(d, g).label

\* C27: calculate_difficulty is monotone: with Easy < Moderate < Hard < Very Hard,
\* for all d1 <= d2 and g1 <= g2 the label for (d2, g2) is at least as severe as
\* the label for (d1, g1).
C27_DifficultyMonotone ==
    DifficultyCalled
        => \A d1 \in DistancesKm, g1 \in GainsM :
              (d1 <= call.distance /\ g1 <= call.arg)
                  => Severity(LabelOf(d1, g1)) <= Severity(result.label)

\* one more kilometre took the label from Hard, given by the exact band, to Very
\* Hard, given by the fallback
C27_Witness ==
    /\ DifficultyCalled
    /\ result.label = "Very Hard"
    /\ ExactBands(call.distance, call.arg) = {}
    /\ ExactBands(call.distance - 1, call.arg) = {"Hard"}
    /\ LabelOf(call.distance - 1, call.arg) = "Hard"

====
